---- MODULE Spec2Model ----
(***************************************************************************)
(* xterm-local-skeleton: the terminal controller (line editing, pending    *)
(* input queue, input phase, handler invocation) and its history           *)
(* controller (bounded log, browse cursor, scratch edits, persistence).    *)
(*                                                                         *)
(* A string is a sequence of UTF-16 code units.  A unit is a one-element   *)
(* token: "a", "b" are printable, " " is white space, "H" "L" are the high *)
(* and low halves of a surrogate pair, "CR" "LF" "DEL" "ETX" "ESC" "TAB"   *)
(* are the control characters 0x0d 0x0a 0x7f 0x03 0x1b 0x09.               *)
(***************************************************************************)
EXTENDS Integers, Sequences, FiniteSets, TLC

VARIABLES
    inputPhase,     \* TerminalController.inputPhase
    input,          \* TerminalController.input
    cursor,         \* TerminalController.cursor
    inputBuffer,    \* TerminalController.inputBuffer
    size,           \* HistoryController.size
    persistent,     \* HistoryController.persistent is defined (a storage key)
    entries,        \* HistoryController.entries
    temporaries,    \* HistoryController.temporaries
    historyCursor,  \* HistoryController.cursor
    tasks,          \* the suspended async calls (startInputPhase, run)
    presented,      \* history variable: the finalized lines written, in order
    handled,        \* history variable: the handler's arguments, in order
    pushed,         \* history variable: the entries pushInput took, in order
    enters,         \* history variable: the line text at every Enter key
    thrown          \* the last event callback raised to its caller

vars == <<inputPhase, input, cursor, inputBuffer, size, persistent, entries,
          temporaries, historyCursor, tasks, presented, handled, pushed,
          enters, thrown>>

-----------------------------------------------------------------------------
(* Bounds of the model *)

MaxLen == 1      \* units in the line buffer
MaxLines == 2    \* Enter and Ctrl+C keys in a behaviour
MaxChunk == 2    \* units in a chunk of pasted text
MaxSize == 1     \* historySize
EditMaxLen == 2       \* units in the line buffer, when editing wide glyphs
EditMaxLines == 1     \* Enter and Ctrl+C keys, when editing wide glyphs
BrowseMaxLen == 1     \* units in the line buffer, when browsing
BrowseMaxLines == 1   \* Enter and Ctrl+C keys, when browsing
RecallMaxSize == 1    \* historySize, when recalling a stored history
RecallMaxPresses == 3 \* cursor-up presses in a round trip
StoreMaxSize == 2     \* historySize, for the history controller alone
StoreMaxCalls == 3    \* rewind calls with an entry, in a behaviour
WalkMaxKeys == 3      \* keys pressed between leaving a slot and returning
LiveMaxLen == 1       \* units in the line buffer, when every handler completes
LiveMaxLines == 2     \* Enter and Ctrl+C keys, when every handler completes
DrainMaxLen == 1      \* units in the line buffer, when draining the queue
DrainMaxLines == 3    \* Enter and Ctrl+C keys, when draining the queue

\* config.historySize ?? 100
DefaultHistorySize == 100

-----------------------------------------------------------------------------
(* JavaScript values *)

\* The value undefined: a sequence no string equals.
Undefined == <<"undefined">>

\* arr[i] of a JavaScript array, 0-based: undefined outside 0..length-1.
ArrayGet(arr, i) ==
    IF i >= 0 /\ i < Len(arr) THEN arr[i + 1] ELSE Undefined

\* arr[i] = v of a JavaScript array, 0-based, i >= 0: the array grows to hold i.
ArraySet(arr, i, v) ==
    [k \in 1..(IF i + 1 > Len(arr) THEN i + 1 ELSE Len(arr)) |->
        IF k = i + 1 THEN v
        ELSE IF k <= Len(arr) THEN arr[k] ELSE Undefined]

\* a ?? b
Coalesce(a, b) == IF a # Undefined THEN a ELSE b

\* s.substring(from, to), 0 <= from <= to
substring(s, from, to) ==
    SubSeq(s, from + 1, IF to > Len(s) THEN Len(s) ELSE to)

WhiteSpace == {" "}

RECURSIVE trimStart(_)
trimStart(s) ==
    IF s # <<>> /\ Head(s) \in WhiteSpace THEN trimStart(Tail(s)) ELSE s

RECURSIVE trimEnd(_)
trimEnd(s) ==
    IF s # <<>> /\ s[Len(s)] \in WhiteSpace
    THEN trimEnd(SubSeq(s, 1, Len(s) - 1))
    ELSE s

\* String.prototype.trim
trim(s) == trimEnd(trimStart(s))

-----------------------------------------------------------------------------
(* The state both classes hold, as one record the synchronous code maps. *)

State ==
    [inputPhase |-> inputPhase, input |-> input, cursor |-> cursor,
     inputBuffer |-> inputBuffer, size |-> size, persistent |-> persistent,
     entries |-> entries, temporaries |-> temporaries,
     historyCursor |-> historyCursor, tasks |-> tasks,
     presented |-> presented, handled |-> handled, pushed |-> pushed,
     enters |-> enters, thrown |-> FALSE, inputPushed |-> TRUE,
     rerendered |-> FALSE]

Becomes(st) ==
    /\ inputPhase' = st.inputPhase
    /\ input' = st.input
    /\ cursor' = st.cursor
    /\ inputBuffer' = st.inputBuffer
    /\ size' = st.size
    /\ persistent' = st.persistent
    /\ entries' = st.entries
    /\ temporaries' = st.temporaries
    /\ historyCursor' = st.historyCursor
    /\ tasks' = st.tasks
    /\ presented' = st.presented
    /\ handled' = st.handled
    /\ pushed' = st.pushed
    /\ enters' = st.enters
    /\ thrown' = st.thrown

-----------------------------------------------------------------------------
(* HistoryController *)

\* resetCursor()
resetCursor(st) ==
    [st EXCEPT !.historyCursor = Len(st.entries),
               !.temporaries = [k \in 1..(Len(st.entries) + 1) |-> Undefined]]

\* pushEntry evicting from the wrong end: the newest entries go.
pushEntryKeepsOldest(es, newEntry, sz) ==
    LET all == Append(es, newEntry)
    IN  IF Len(all) > sz THEN SubSeq(all, 1, sz) ELSE all

\* entries.push(newEntry); if (length > size) entries.splice(0, length - size)
pushEntry(es, newEntry, sz) ==
    LET all == Append(es, newEntry)
    IN  IF Len(all) > sz THEN SubSeq(all, Len(all) - sz + 1, Len(all)) ELSE all

\* rewind without the comparison with the last stored entry.
rewindWithoutDedup(st, newEntry, storageFails) ==
    IF /\ newEntry # Undefined
       /\ trim(newEntry) # <<>>
    THEN LET s1 == [st EXCEPT !.entries = pushEntry(@, newEntry, st.size)]
         IN  IF st.persistent /\ storageFails
             THEN [s1 EXCEPT !.thrown = TRUE]
             ELSE resetCursor(s1)
    ELSE resetCursor(st)

\* rewind(newEntry); storageFails: window.localStorage.setItem throws.
rewind(st, newEntry, storageFails) ==
    IF /\ newEntry # Undefined
       /\ trim(newEntry) # <<>>
       /\ newEntry # ArrayGet(st.entries, Len(st.entries) - 1)
    THEN LET s1 == [st EXCEPT !.entries = pushEntry(@, newEntry, st.size)]
         IN  IF st.persistent /\ storageFails
             THEN [s1 EXCEPT !.thrown = TRUE]
             ELSE resetCursor(s1)
    ELSE resetCursor(st)

\* getPrevious without the scratch array: the stored entry is returned.
getPreviousStored(st, current) ==
    [state |-> [st EXCEPT !.historyCursor =
                              IF st.historyCursor > 0 THEN @ - 1 ELSE @],
     result |-> ArrayGet(st.entries, st.historyCursor - 1)]

\* getPrevious(current): the new state and, in .result, the value returned.
getPrevious(st, current) ==
    LET temps == ArraySet(st.temporaries, st.historyCursor, current)
        entry == Coalesce(ArrayGet(temps, st.historyCursor - 1),
                          ArrayGet(st.entries, st.historyCursor - 1))
    IN  [state |-> [st EXCEPT !.temporaries = temps,
                              !.historyCursor =
                                  IF st.historyCursor > 0 THEN @ - 1 ELSE @],
         result |-> entry]

\* getNext(current): the new state and, in .result, the value returned.
getNext(st, current) ==
    LET temps == ArraySet(st.temporaries, st.historyCursor, current)
        entry == Coalesce(ArrayGet(temps, st.historyCursor + 1),
                          ArrayGet(st.entries, st.historyCursor + 1))
    IN  [state |-> [st EXCEPT !.temporaries = temps,
                              !.historyCursor =
                                  IF st.historyCursor < Len(st.entries)
                                  THEN @ + 1 ELSE @],
         result |-> entry]

-----------------------------------------------------------------------------
(* TerminalController: the synchronous code *)

ControlUnits == {"CR", "LF", "DEL", "ETX", "ESC", "TAB"}

\* normalizeInput: every "\r\n" and every "\n" becomes "\r".
RECURSIVE normalizeInput(_)
normalizeInput(str) ==
    IF str = <<>> THEN <<>>
    ELSE IF Len(str) >= 2 /\ str[1] = "CR" /\ str[2] = "LF"
         THEN <<"CR">> \o normalizeInput(SubSeq(str, 3, Len(str)))
    ELSE IF str[1] = "LF"
         THEN <<"CR">> \o normalizeInput(Tail(str))
    ELSE <<str[1]>> \o normalizeInput(Tail(str))

\* for (const char of str): the string iterator yields code points, a
\* surrogate pair as one string of two units, any other unit alone.
RECURSIVE codePoints(_)
codePoints(str) ==
    IF str = <<>> THEN <<>>
    ELSE IF Len(str) >= 2 /\ str[1] = "H" /\ str[2] = "L"
         THEN <<SubSeq(str, 1, 2)>> \o codePoints(SubSeq(str, 3, Len(str)))
    ELSE <<SubSeq(str, 1, 1)>> \o codePoints(Tail(str))

\* renderInput(newLine, completing, text): what reaches the terminal's write
\* queue.  A completing render finalizes a line: the text given, or the line
\* buffer when no text is given.  A render that neither starts a new line
\* nor completes one redraws the prompt line in place: .rerendered records it
\* for the event in progress.  The screen itself is not modelled.
renderInput(st, newLine, completing, text) ==
    IF completing
    THEN [st EXCEPT !.presented =
              Append(@, IF text = Undefined THEN st.input ELSE text)]
    ELSE IF ~newLine
    THEN [st EXCEPT !.rerendered = TRUE]
    ELSE st

\* startInputPhase() up to its first await: past the guard it issues
\* write("") and suspends.
startInputPhase(st) ==
    IF ~st.inputPhase
    THEN [st EXCEPT !.tasks = Append(@, "flush")]
    ELSE st

\* run(text) up to its await: the handler is called, its promise awaited.
run(st, text) ==
    [st EXCEPT !.handled = Append(@, text), !.tasks = Append(@, "handler")]

\* pushInput handing the line to the history on a discard too.
pushInputRecordsDiscard(st, execute, storageFails) ==
    LET h == rewind(st, st.input, storageFails)
        p == [h EXCEPT !.pushed =
                  Append(@, [input |-> h.input, execute |-> execute])]
    IN  IF h.thrown THEN h
        ELSE IF p.inputPhase
        THEN LET r == renderInput([p EXCEPT !.inputPhase = FALSE],
                                  FALSE, TRUE, Undefined)
                 c == [r EXCEPT !.input = <<>>, !.cursor = 0]
             IN  IF execute THEN run(c, p.input) ELSE startInputPhase(c)
        ELSE [p EXCEPT !.inputBuffer =
                           Append(@, [input |-> p.input, execute |-> execute]),
                       !.input = <<>>, !.cursor = 0]

\* pushInput running an executed line at once also when the phase is not
\* live.
pushInputRunsAtOnce(st, execute, storageFails) ==
    LET h == rewind(st, IF execute THEN st.input ELSE Undefined, storageFails)
        p == [h EXCEPT !.pushed =
                  Append(@, [input |-> h.input, execute |-> execute])]
    IN  IF h.thrown THEN h
        ELSE IF p.inputPhase \/ execute
        THEN LET r == renderInput([p EXCEPT !.inputPhase = FALSE],
                                  FALSE, TRUE, Undefined)
                 c == [r EXCEPT !.input = <<>>, !.cursor = 0]
             IN  IF execute THEN run(c, p.input) ELSE startInputPhase(c)
        ELSE [p EXCEPT !.inputBuffer =
                           Append(@, [input |-> p.input, execute |-> execute]),
                       !.input = <<>>, !.cursor = 0]

\* pushInput(execute)
pushInput(st, execute, storageFails) ==
    LET h == rewind(st, IF execute THEN st.input ELSE Undefined, storageFails)
        p == [h EXCEPT !.pushed =
                  Append(@, [input |-> h.input, execute |-> execute])]
    IN  IF h.thrown THEN h
        ELSE IF p.inputPhase
        THEN LET r == renderInput([p EXCEPT !.inputPhase = FALSE],
                                  FALSE, TRUE, Undefined)
                 c == [r EXCEPT !.input = <<>>, !.cursor = 0]
             IN  IF execute THEN run(c, p.input) ELSE startInputPhase(c)
        ELSE [p EXCEPT !.inputBuffer =
                           Append(@, [input |-> p.input, execute |-> execute]),
                       !.input = <<>>, !.cursor = 0]

\* onEscape moving the cursor right without the check against the length.
onEscapeRightUnchecked(st, sequence) ==
    LET s0 == [st EXCEPT !.inputPushed = FALSE]
    IN  CASE sequence = <<"[", "A">> ->
                 LET g == getPrevious(s0, s0.input)
                 IN  IF g.result # Undefined
                     THEN [g.state EXCEPT !.input = g.result,
                                          !.cursor = Len(g.result)]
                     ELSE g.state
          [] sequence = <<"[", "B">> ->
                 LET g == getNext(s0, s0.input)
                 IN  IF g.result # Undefined
                     THEN [g.state EXCEPT !.input = g.result,
                                          !.cursor = Len(g.result)]
                     ELSE g.state
          [] sequence = <<"[", "D">> ->
                 IF s0.cursor > 0 THEN [s0 EXCEPT !.cursor = @ - 1] ELSE s0
          [] sequence = <<"[", "C">> -> [s0 EXCEPT !.cursor = @ + 1]
          [] sequence = <<"[", "3", "~">> ->
                 IF s0.cursor < Len(s0.input)
                 THEN [s0 EXCEPT !.input =
                           substring(@, 0, s0.cursor)
                           \o substring(@, s0.cursor + 1, Len(@))]
                 ELSE s0
          [] OTHER -> s0

\* onEscape(sequence); the value returned is .inputPushed
onEscape(st, sequence) ==
    LET s0 == [st EXCEPT !.inputPushed = FALSE]
    IN  CASE sequence = <<"[", "A">> ->
                 LET g == getPrevious(s0, s0.input)
                 IN  IF g.result # Undefined
                     THEN [g.state EXCEPT !.input = g.result,
                                          !.cursor = Len(g.result)]
                     ELSE g.state
          [] sequence = <<"[", "B">> ->
                 LET g == getNext(s0, s0.input)
                 IN  IF g.result # Undefined
                     THEN [g.state EXCEPT !.input = g.result,
                                          !.cursor = Len(g.result)]
                     ELSE g.state
          [] sequence = <<"[", "D">> ->
                 IF s0.cursor > 0 THEN [s0 EXCEPT !.cursor = @ - 1] ELSE s0
          [] sequence = <<"[", "C">> ->
                 IF s0.cursor < Len(s0.input)
                 THEN [s0 EXCEPT !.cursor = @ + 1] ELSE s0
          [] sequence = <<"[", "3", "~">> ->
                 IF s0.cursor < Len(s0.input)
                 THEN [s0 EXCEPT !.input =
                           substring(@, 0, s0.cursor)
                           \o substring(@, s0.cursor + 1, Len(@))]
                 ELSE s0
          [] OTHER -> s0

\* onChar(char); the value returned is .inputPushed
onChar(st, char, storageFails) ==
    IF char[1] \in ControlUnits
    THEN CASE char = <<"CR">> ->
                  LET e == [st EXCEPT !.enters = Append(@, st.input)]
                      q == pushInput(e, TRUE, storageFails)
                  IN  [q EXCEPT !.inputPushed = TRUE]
           [] char = <<"DEL">> ->
                  IF st.cursor > 0
                  THEN [st EXCEPT !.input =
                            substring(@, 0, st.cursor - 1)
                            \o substring(@, st.cursor, Len(@)),
                                  !.cursor = @ - 1,
                                  !.inputPushed = FALSE]
                  ELSE [st EXCEPT !.inputPushed = FALSE]
           [] char = <<"ETX">> ->
                  LET a == [st EXCEPT !.input = @ \o <<"^", "C">>]
                      q == pushInput(a, FALSE, storageFails)
                  IN  [q EXCEPT !.inputPushed = TRUE]
           [] OTHER -> [st EXCEPT !.inputPushed = FALSE]
    ELSE [st EXCEPT !.input =
              substring(@, 0, st.cursor) \o char
              \o substring(@, st.cursor, Len(@)),
                    !.cursor = @ + Len(char),
                    !.inputPushed = FALSE]

\* the loop of onData over the characters; an exception ends it.
RECURSIVE onChars(_, _, _)
onChars(st, chars, storageFails) ==
    IF chars = <<>> \/ st.thrown THEN st
    ELSE onChars(onChar(st, Head(chars), storageFails), Tail(chars),
                 storageFails)

\* onData redrawing the prompt line after every chunk that ends without a
\* push, whatever the phase.
onDataRedrawsAlways(st, str, storageFails) ==
    LET s0 == [st EXCEPT !.inputPushed = TRUE, !.thrown = FALSE]
        s1 == IF Len(str) > 0
              THEN IF str[1] = "ESC"
                   THEN onEscape(s0, Tail(str))
                   ELSE onChars(s0, codePoints(normalizeInput(str)),
                                storageFails)
              ELSE s0
    IN  IF ~s1.thrown /\ ~s1.inputPushed
        THEN renderInput(s1, FALSE, FALSE, Undefined)
        ELSE s1

\* onData(str)
onData(st, str, storageFails) ==
    LET s0 == [st EXCEPT !.inputPushed = TRUE, !.thrown = FALSE]
        s1 == IF Len(str) > 0
              THEN IF str[1] = "ESC"
                   THEN onEscape(s0, Tail(str))
                   ELSE onChars(s0, codePoints(normalizeInput(str)),
                                storageFails)
              ELSE s0
    IN  IF ~s1.thrown /\ ~s1.inputPushed /\ s1.inputPhase
        THEN renderInput(s1, FALSE, FALSE, Undefined)
        ELSE s1

-----------------------------------------------------------------------------
(* TerminalController: the asynchronous code, one step per resumption *)

RemoveAt(seq, i) == SubSeq(seq, 1, i - 1) \o SubSeq(seq, i + 1, Len(seq))

\* drainStep taking the newest entry (pop) instead of the oldest (shift).
drainStepNewest(st) ==
    IF st.inputBuffer # <<>>
    THEN LET entry == st.inputBuffer[Len(st.inputBuffer)]
             r == renderInput(
                      [st EXCEPT !.inputBuffer = SubSeq(@, 1, Len(@) - 1)],
                      TRUE, TRUE, entry.input)
         IN  IF entry.execute
             THEN run(r, entry.input)
             ELSE [r EXCEPT !.tasks = Append(@, "drain")]
    ELSE renderInput([st EXCEPT !.inputPhase = TRUE], TRUE, FALSE, Undefined)

\* drainStep going on with the next entry after an execute entry.
drainStepPastExecute(st) ==
    IF st.inputBuffer # <<>>
    THEN LET entry == Head(st.inputBuffer)
             r == renderInput([st EXCEPT !.inputBuffer = Tail(@)],
                              TRUE, TRUE, entry.input)
         IN  IF entry.execute
             THEN [run(r, entry.input) EXCEPT !.tasks = Append(@, "drain")]
             ELSE [r EXCEPT !.tasks = Append(@, "drain")]
    ELSE renderInput([st EXCEPT !.inputPhase = TRUE], TRUE, FALSE, Undefined)

\* drainStep with an if for the while: after one discarded line the phase
\* goes live, whatever is still queued.
drainStepOnce(st) ==
    IF st.inputBuffer # <<>>
    THEN LET entry == Head(st.inputBuffer)
             r == renderInput([st EXCEPT !.inputBuffer = Tail(@)],
                              TRUE, TRUE, entry.input)
         IN  IF entry.execute
             THEN run(r, entry.input)
             ELSE renderInput([r EXCEPT !.inputPhase = TRUE],
                              TRUE, FALSE, Undefined)
    ELSE renderInput([st EXCEPT !.inputPhase = TRUE], TRUE, FALSE, Undefined)

\* inputBuffer.shift() and the loop body of startInputPhase up to its next
\* await or return; when the queue is empty, the phase goes live and the live
\* prompt is rendered (nothing follows the await of that render, so the call
\* ends there).
drainStep(st) ==
    IF st.inputBuffer # <<>>
    THEN LET entry == Head(st.inputBuffer)
             r == renderInput([st EXCEPT !.inputBuffer = Tail(@)],
                              TRUE, TRUE, entry.input)
         IN  IF entry.execute
             THEN run(r, entry.input)
             ELSE [r EXCEPT !.tasks = Append(@, "drain")]
    ELSE renderInput([st EXCEPT !.inputPhase = TRUE], TRUE, FALSE, Undefined)

-----------------------------------------------------------------------------
(* Construction *)

\* new HistoryController(size, persistent): stored is what JSON.parse of the
\* stored item yields; a failed read is caught and leaves [].
HistoryInit(sz, key, stored) ==
    /\ size = sz
    /\ persistent = key
    /\ entries = stored
    /\ historyCursor = Len(stored)
    /\ temporaries = [k \in 1..(Len(stored) + 1) |-> Undefined]

\* new TerminalController(config): the fields' initial values, then
\* startInputPhase(), which suspends at its write("").
ControllerInit ==
    /\ inputPhase = FALSE
    /\ input = <<>>
    /\ cursor = 0
    /\ inputBuffer = <<>>
    /\ tasks = <<"flush">>
    /\ presented = <<>>
    /\ handled = <<>>
    /\ pushed = <<>>
    /\ enters = <<>>
    /\ thrown = FALSE

\* The arrays of strings of length 0..n over the lines given.
RECURSIVE ArraysOf(_, _)
ArraysOf(lines, n) ==
    IF n = 0 THEN {<<>>}
    ELSE LET shorter == ArraysOf(lines, n - 1)
         IN  shorter \cup {Append(a, l) : a \in shorter, l \in lines}

\* The stored histories a construction may find: written by an earlier
\* session, possibly one configured with a larger historySize.
StoredLines == {<<"a">>, <<"b">>}

\* Construction with a historySize among sizes, without a storage key or
\* with one whose stored history is among stored.
InitOf(sizes, stored) ==
    /\ ControllerInit
    /\ \E sz \in sizes, key \in BOOLEAN :
          \E found \in (IF key THEN stored \cup {<<>>} ELSE {<<>>}) :
              HistoryInit(sz, key, found)

Init == InitOf(1..MaxSize, {<<>>})

\* A JSON number as an element of a parsed array: a value no string equals.
JsonNumber == <<"0">>

\* What the storage holds under the key when it is not an array of strings:
\* nothing (getItem gives null, and "" is parsed), a text that is not JSON,
\* the JSON values null, a number, an object, a string, and an array with an
\* element that is not a string.
MalformedItems ==
    {[kind |-> k, value |-> <<>>] :
        k \in {"absent", "unparseable", "null", "number", "object", "string"}}
    \cup {[kind |-> "array", value |-> <<JsonNumber>>]}

\* JSON.parse(getItem(persistent) ?? "") throws a SyntaxError.
ParseThrows(item) == item.kind \in {"absent", "unparseable"}

\* new HistoryController(size, persistent) with item in the storage.  A
\* SyntaxError of the parse is caught and leaves []; any value parsed is
\* assigned to entries, and resetCursor() then reads entries.length and
\* calls entries.map: on a value that is not an array this raises a
\* TypeError out of the constructor, the fields holding their initializers'
\* values ([] and 0) for the scratch slots and the cursor.
HistoryLoad(sz, item) ==
    /\ size = sz
    /\ persistent = TRUE
    /\ IF ParseThrows(item) \/ item.kind = "array"
       THEN /\ entries = item.value
            /\ historyCursor = Len(item.value)
            /\ temporaries = [k \in 1..(Len(item.value) + 1) |-> Undefined]
            /\ thrown = FALSE
       ELSE /\ entries = <<>>
            /\ historyCursor = 0
            /\ temporaries = <<>>
            /\ thrown = TRUE

-----------------------------------------------------------------------------
(* Events *)

\* The units of a chunk that are inserted into the line.
RECURSIVE Printable(_)
Printable(str) ==
    IF str = <<>> THEN 0
    ELSE (IF str[1] \in ControlUnits THEN 0 ELSE 1) + Printable(Tail(str))

\* The units of a chunk that complete a line.
RECURSIVE Terminators(_)
Terminators(str) ==
    IF str = <<>> THEN 0
    ELSE (IF str[1] \in {"CR", "LF", "ETX"} THEN 1 ELSE 0)
         + Terminators(Tail(str))

IsEscape(str) == str # <<>> /\ str[1] = "ESC"

\* A chunk the bounds of the model admit in the present state.
Admitted(str, maxLen, maxLines) ==
    \/ IsEscape(str)
    \/ /\ Len(input) + Printable(str) <= maxLen
       /\ Len(pushed) + Terminators(str) <= maxLines
       /\ Len(enters) + Terminators(str) <= maxLines

\* terminal.onData fires with str; storageFails: setItem throws in this event.
OnData(str, storageFails) ==
    Becomes(onData(State, str, storageFails))

\* startInputPhase resumes after await write("").
FlushDone(i) ==
    /\ tasks[i] = "flush"
    /\ Becomes(drainStep([State EXCEPT !.tasks = RemoveAt(@, i)]))

\* startInputPhase resumes after awaiting a finalized line's render.
DrainDone(i) ==
    /\ tasks[i] = "drain"
    /\ Becomes(drainStep([State EXCEPT !.tasks = RemoveAt(@, i)]))

\* run ending after its handler, without entering the input phase.
HandlerDoneStops(i) ==
    /\ tasks[i] = "handler"
    /\ Becomes([State EXCEPT !.tasks = RemoveAt(@, i)])

\* run resumes after await handler(input): it calls startInputPhase.
HandlerDone(i) ==
    /\ tasks[i] = "handler"
    /\ Becomes(startInputPhase([State EXCEPT !.tasks = RemoveAt(@, i)]))

\* a rejected handler after which run goes on as after a fulfilled one.
HandlerThrowsRestarts(i) ==
    /\ tasks[i] = "handler"
    /\ Becomes(startInputPhase([State EXCEPT !.tasks = RemoveAt(@, i)]))

\* the handler's promise rejects: run ends there.
HandlerThrows(i) ==
    /\ tasks[i] = "handler"
    /\ Becomes([State EXCEPT !.tasks = RemoveAt(@, i)])

Async ==
    \/ \E i \in DOMAIN tasks : FlushDone(i)
    \/ \E i \in DOMAIN tasks : DrainDone(i)
    \/ \E i \in DOMAIN tasks : HandlerDone(i)
    \/ \E i \in DOMAIN tasks : HandlerThrows(i)

\* The sequences of length 1..n over the units given.
RECURSIVE StringsOf(_, _)
StringsOf(units, n) ==
    IF n = 0 THEN {}
    ELSE LET shorter == StringsOf(units, n - 1)
         IN  {<<u>> : u \in units} \cup shorter
             \cup {Append(x, u) : x \in shorter, u \in units}

Up == <<"ESC", "[", "A">>
Down == <<"ESC", "[", "B">>
Right == <<"ESC", "[", "C">>
Left == <<"ESC", "[", "D">>
Delete == <<"ESC", "[", "3", "~">>

Chunks ==
    {<<"DEL">>} \cup StringsOf({"a", "CR", "LF", "ETX"}, MaxChunk)

\* An event of the terminal's onData among chunks, within the bounds given.
DataOf(chunks, maxLen, maxLines) ==
    \E str \in chunks, storageFails \in BOOLEAN :
        /\ Admitted(str, maxLen, maxLines)
        /\ OnData(str, storageFails)

Data == DataOf(Chunks, MaxLen, MaxLines)

Next == Data \/ Async

Spec == Init /\ [][Next]_vars

-----------------------------------------------------------------------------
(* The controller under single keys: editing with wide glyphs *)

\* The keys: a printable character, a glyph of two units (a surrogate pair),
\* Backspace, Enter, Ctrl+C, Tab, cursor left and right, delete forward and
\* an unrecognized escape sequence.
EditChunks ==
    {<<"a">>, <<"H", "L">>, <<"DEL">>, <<"CR">>, <<"ETX">>, <<"TAB">>,
     Left, Right, Delete, <<"ESC", "[", "Z">>}

EditData == DataOf(EditChunks, EditMaxLen, EditMaxLines)

EditNext == EditData \/ Async

\* Constructed with the default historySize and no stored history.
EditInit == InitOf({DefaultHistorySize}, {<<>>})

EditSpec == EditInit /\ [][EditNext]_vars

-----------------------------------------------------------------------------
(* The controller under single keys: editing and browsing the history *)

\* The keys: a printable character, Backspace, Enter, Ctrl+C and the five
\* recognized escape sequences.
BrowseChunks ==
    {<<"a">>, <<"DEL">>, <<"CR">>, <<"ETX">>, Up, Down, Left, Right, Delete}

BrowseData == DataOf(BrowseChunks, BrowseMaxLen, BrowseMaxLines)

BrowseNext == BrowseData \/ Async

\* Constructed with the default historySize and a stored history of at most
\* one entry.
BrowseInit == InitOf({DefaultHistorySize}, ArraysOf({<<"b">>}, 1))

BrowseSpec == BrowseInit /\ [][BrowseNext]_vars

-----------------------------------------------------------------------------
(* The controller under single keys: recalling a stored history *)

\* The keys: a printable character, Backspace, Enter, Ctrl+C, cursor up and
\* cursor down.
RecallChunks == {<<"a">>, <<"DEL">>, <<"CR">>, <<"ETX">>, Up, Down}

RecallData == DataOf(RecallChunks, BrowseMaxLen, BrowseMaxLines)

RecallNext == RecallData \/ Async

\* Constructed with a small historySize and any stored history, also one
\* longer than historySize.
RecallInit == InitOf(1..RecallMaxSize, ArraysOf({<<"b">>}, RecallMaxSize + 1))

RecallSpec == RecallInit /\ [][RecallNext]_vars

-----------------------------------------------------------------------------
(* The controller under single keys: queueing and draining lines *)

\* The keys: a printable character, Enter and Ctrl+C.
DrainChunks == {<<"a">>, <<"CR">>, <<"ETX">>}

DrainData == DataOf(DrainChunks, DrainMaxLen, DrainMaxLines)

DrainNext == DrainData \/ Async

\* Constructed with the default historySize and no stored history.
DrainInit == InitOf({DefaultHistorySize}, {<<>>})

DrainSpec == DrainInit /\ [][DrainNext]_vars

-----------------------------------------------------------------------------
(* The controller when every write is flushed and every handler completes *)

\* The resumptions of the asynchronous calls, no handler throwing.
Flushes == \E i \in DOMAIN tasks : FlushDone(i)
Drained == \E i \in DOMAIN tasks : DrainDone(i)
Completes == \E i \in DOMAIN tasks : HandlerDone(i)

LiveData == DataOf(DrainChunks, LiveMaxLen, LiveMaxLines)

LiveNext == LiveData \/ Flushes \/ Drained \/ Completes

\* The terminal calls back every write that was issued, and the handler's
\* promise is fulfilled: a resumption that stays possible happens.
LiveSpec ==
    /\ DrainInit
    /\ [][LiveNext]_vars
    /\ WF_vars(Flushes)
    /\ WF_vars(Drained)
    /\ WF_vars(Completes)

-----------------------------------------------------------------------------
(* The HistoryController alone, under any sequence of calls *)

\* The lines a caller passes: empty, white space only, and two texts.
StoreLines == {<<>>, <<" ">>, <<"a">>, <<"b">>}

\* The line buffers a caller passes when browsing.
CurrentLines == {<<>>, <<"a">>}

\* rewind(newEntry) is called; storageFails: setItem throws in this call.
\* enters records the entries given, as the controller's Enter does.
Rewind(newEntry, storageFails) ==
    /\ newEntry # Undefined => Len(enters) < StoreMaxCalls
    /\ Becomes(rewind([State EXCEPT !.enters =
                           IF newEntry # Undefined
                           THEN Append(@, newEntry) ELSE @],
                      newEntry, storageFails))

\* getPrevious(current) is called.
GetPrevious(current) == Becomes(getPrevious(State, current).state)

\* getNext(current) is called.
GetNext(current) == Becomes(getNext(State, current).state)

StoreNext ==
    \/ \E newEntry \in StoreLines \cup {Undefined}, storageFails \in BOOLEAN :
           Rewind(newEntry, storageFails)
    \/ \E current \in CurrentLines : GetPrevious(current)
    \/ \E current \in CurrentLines : GetNext(current)

\* Constructed with any stored history.
StoreInit == InitOf(1..StoreMaxSize, ArraysOf(StoredLines, StoreMaxSize + 1))

StoreSpec == StoreInit /\ [][StoreNext]_vars

\* Constructed with no stored history.
EmptyInit == InitOf(1..StoreMaxSize, {<<>>})

EmptySpec == EmptyInit /\ [][StoreNext]_vars

\* The constructor returned: resetCursor gave the scratch array its slots.
Constructed == temporaries # <<>>

\* Constructed with a storage key whose item is malformed.
LoadInit ==
    /\ inputPhase = FALSE
    /\ input = <<>>
    /\ cursor = 0
    /\ inputBuffer = <<>>
    /\ tasks = <<>>
    /\ presented = <<>>
    /\ handled = <<>>
    /\ pushed = <<>>
    /\ enters = <<>>
    /\ \E sz \in 1..StoreMaxSize, item \in MalformedItems : HistoryLoad(sz, item)

\* The calls on the object, when the constructor returned one.
LoadNext == Constructed /\ StoreNext

LoadSpec == LoadInit /\ [][LoadNext]_vars

-----------------------------------------------------------------------------
(* Properties of the controller's queue and handler *)

Texts(es) == [k \in DOMAIN es |-> es[k].input]

RECURSIVE Executed(_)
Executed(es) ==
    IF es = <<>> THEN <<>>
    ELSE (IF Head(es).execute THEN <<Head(es).input>> ELSE <<>>)
         \o Executed(Tail(es))

RECURSIVE Discarded(_)
Discarded(es) ==
    IF es = <<>> THEN <<>>
    ELSE (IF Head(es).execute THEN <<>> ELSE <<Head(es).input>>)
         \o Discarded(Tail(es))

IsPrefix(s, t) == Len(s) <= Len(t) /\ SubSeq(t, 1, Len(s)) = s

\* C1: the lines pushInput took are presented as finalized lines in the order
\* taken, those not yet presented wait in the pending-input queue in that
\* same order, and the handler has received the executed ones in that order:
\* at every moment presented followed by the queue is the sequence of pushes,
\* and handled followed by the queue's executed entries is the sequence of
\* executed pushes.
C1_FifoOrder ==
    /\ presented \o Texts(inputBuffer) = Texts(pushed)
    /\ handled \o Executed(inputBuffer) = Executed(pushed)

\* C1 witness: a discarded line completed while the phase was not live has
\* been drained and presented, and a later line still waits behind it.
C1_Witness ==
    /\ tasks = <<"drain">>
    /\ Len(presented) = 1
    /\ Len(inputBuffer) = 1
    /\ presented[1] # inputBuffer[1].input

\* The controller is at rest in the live phase: nothing is suspended.
Quiescent == inputPhase /\ tasks = <<>> /\ inputBuffer = <<>>

\* C2: every line completed with Enter is passed to the handler exactly once,
\* with the text the buffer held at Enter: the handler's arguments are always
\* a prefix of the Enter texts, and once the controller is at rest in the
\* live phase they are all of them.
C2_EveryEnterHandledOnce ==
    /\ IsPrefix(handled, enters)
    /\ Quiescent => handled = enters

\* A line text that ends with the marker Ctrl+C appends.  No key of the
\* model types "^" or "C" and no stored history holds them, so only a
\* discarded line ends so.
IsDiscard(text) ==
    Len(text) >= 2 /\ SubSeq(text, Len(text) - 1, Len(text)) = <<"^", "C">>

\* C9: Ctrl+C appends "^C" to the line and pushes it without executing: in
\* every reachable state, and whether or not the storage fails, a Ctrl+C key
\* does not raise, leaves the history entries and the handler's invocations
\* as they were, takes the line with "^C" appended as a non-execute entry
\* (presented at once in the live phase, queued otherwise) and empties the
\* buffer; and no discarded line ever reaches the handler or the history,
\* also when it is drained from the queue later.
C9_CtrlCDiscards ==
    /\ \A k \in DOMAIN pushed : ~pushed[k].execute <=> IsDiscard(pushed[k].input)
    /\ \A k \in DOMAIN handled : ~IsDiscard(handled[k])
    /\ \A k \in DOMAIN entries : ~IsDiscard(entries[k])
    /\ Len(handled) + Len(Discarded(pushed)) <= Len(pushed)
    /\ \A storageFails \in BOOLEAN :
          LET s == onData(State, <<"ETX">>, storageFails)
              line == input \o <<"^", "C">>
              entry == [input |-> line, execute |-> FALSE]
          IN  /\ ~s.thrown
              /\ s.entries = entries
              /\ s.handled = handled
              /\ s.pushed = Append(pushed, entry)
              /\ s.input = <<>> /\ s.cursor = 0
              /\ IF inputPhase
                 THEN /\ s.presented = Append(presented, line)
                      /\ s.inputBuffer = inputBuffer
                      /\ ~s.inputPhase
                 ELSE /\ s.inputBuffer = Append(inputBuffer, entry)
                      /\ s.presented = presented

\* C9 witness: two lines were discarded with Ctrl+C, the first in the live
\* phase and the second drained from the queue; both are presented, the
\* handler was never invoked, the history is empty and the prompt is back.
C9_Witness ==
    /\ inputPhase
    /\ Len(presented) = 2
    /\ IsDiscard(presented[1]) /\ IsDiscard(presented[2])
    /\ presented[1] # presented[2]
    /\ handled = <<>>
    /\ entries = <<>>

\* C10: a storage failure never reaches the caller: no event callback ends by
\* raising, so that the history operation completes (browse cursor reset) and
\* the line push completes (buffer reset, handler run).
C10_StorageFailureNeverThrows == ~thrown

-----------------------------------------------------------------------------
(* Properties of the history log *)

\* C4: the number of stored history entries never exceeds the capacity size,
\* in every state reachable from construction with any stored array of
\* strings by rewind, getPrevious and getNext calls.
C4_LengthWithinSize == Len(entries) <= size

NonBlank(line) == trim(line) # <<>>

NoRepeat(log) == \A k \in 1..(Len(log) - 1) : log[k] # log[k + 1]

Min(a, b) == IF a <= b THEN a ELSE b

LastN(log, n) == SubSeq(log, Len(log) - n + 1, Len(log))

\* C5: from an empty history, after accepting n non-blank lines of which no
\* two consecutive ones are equal, the history log is the last min(n, size)
\* of them, in acceptance order.
C5_KeepsMostRecent ==
    ((\A k \in DOMAIN enters : NonBlank(enters[k])) /\ NoRepeat(enters))
        => entries = LastN(enters, Min(Len(enters), size))

\* C5 witness: three such lines were accepted with capacity 2, and the log
\* holds the second and the third.
C5_Witness ==
    /\ size = 2
    /\ Len(enters) = 3
    /\ \A k \in DOMAIN enters : NonBlank(enters[k])
    /\ NoRepeat(enters)
    /\ entries = <<enters[2], enters[3]>>

\* C6: rewind appends nothing when the new entry is blank or equals the last
\* stored entry: from an empty history the log never holds a blank entry nor
\* two equal adjacent entries, accepting the same text twice in a row leaves
\* one entry, and in every reachable state a rewind with such an entry leaves
\* the entries as they are.
C6_NoConsecutiveDuplicate ==
    /\ NoRepeat(entries)
    /\ \A k \in DOMAIN entries : NonBlank(entries[k])
    /\ (Len(enters) = 2 /\ enters[1] = enters[2] /\ NonBlank(enters[1]))
           => entries = <<enters[1]>>
    /\ \A line \in StoreLines, storageFails \in BOOLEAN :
           (~NonBlank(line) \/ line = ArrayGet(entries, Len(entries) - 1))
               => rewind(State, line, storageFails).entries = entries

\* C6 witness: the same non-blank text was accepted twice in a row and the
\* log holds it once.
C6_Witness ==
    /\ Len(enters) = 2
    /\ enters[1] = enters[2]
    /\ NonBlank(enters[1])
    /\ entries = <<enters[1]>>

-----------------------------------------------------------------------------
(* Properties of the line buffer *)

\* C3: in every reachable state, after any sequence of keys (insertion,
\* Backspace, delete forward, cursor left and right, history recall up and
\* down, Enter, Ctrl+C) in either phase, the line-edit cursor lies within the
\* line: 0 <= cursor <= length(input).
C3_CursorWithinLine == 0 <= cursor /\ cursor <= Len(input)

\* C3 witness: in the live phase a character was typed, cursor-up recalled a
\* stored entry over it, and cursor-left moved the cursor to the start of
\* the line.
C3_Witness ==
    /\ inputPhase
    /\ input = <<"b">>
    /\ cursor = 0
    /\ historyCursor < Len(entries)
    /\ temporaries[Len(entries) + 1] = <<"a">>

\* The glyph of two units: a surrogate pair.
Glyph == <<"H", "L">>

\* C8: inserting a glyph of two units advances the cursor by two, and a
\* Backspace right after it removes the whole glyph: line text and cursor are
\* again what they were before the insertion.
C8_WideGlyphRoundTrip ==
    LET i == onData(State, Glyph, FALSE)
        b == onData(i, <<"DEL">>, FALSE)
    IN  /\ i.cursor = cursor + 2
        /\ b.input = input
        /\ b.cursor = cursor

-----------------------------------------------------------------------------
(* Properties of browsing *)

\* The key pressed k times in a row.
RECURSIVE Press(_, _, _)
Press(st, key, k) ==
    IF k = 0 THEN st ELSE Press(onData(st, key, FALSE), key, k - 1)

\* C7: at the live slot with a blank line, cursor-up pressed k times and then
\* cursor-down pressed k times, for any k (also more than the stored
\* entries), leaves the line buffer as it was and the browse cursor at the
\* live slot.
C7_BrowseRoundTrip ==
    (historyCursor = Len(entries) /\ trim(input) = <<>>)
        => \A k \in 0..RecallMaxPresses :
               LET r == Press(Press(State, Up, k), Down, k)
               IN  r.input = input /\ r.historyCursor = Len(entries)

-----------------------------------------------------------------------------
(* Properties of construction *)

\* C11: construction with a storage key whose item is malformed (absent, not
\* JSON, or JSON that is not an array of strings) never raises and yields
\* the empty history: until an entry is given to rewind, no call has raised,
\* the log is empty, the browse cursor is at the live slot and the scratch
\* array is one empty slot after every rewind.
C11_MalformedLoadsEmpty ==
    enters = <<>> =>
        /\ ~thrown
        /\ entries = <<>>
        /\ historyCursor <= Len(entries)
        /\ rewind(State, Undefined, FALSE).temporaries = <<Undefined>>

-----------------------------------------------------------------------------
(* Properties of the input phase *)

\* The phase is not live and no call is suspended that could make it live.
Stuck == ~inputPhase /\ tasks = <<>>

\* C12: when a handler invocation throws, the restart of the input phase
\* that follows the handler does not happen: the step leaves the phase flag
\* false with nothing scheduled, and from such a state every step keeps it
\* so, presents no line, invokes no handler, and appends every line taken
\* afterwards to the pending-input queue, from which nothing is removed.
C12_HandlerThrowStopsPhase ==
    [][/\ (\E i \in DOMAIN tasks : HandlerThrows(i)) => Stuck'
       /\ Stuck =>
             /\ Stuck'
             /\ presented' = presented
             /\ handled' = handled
             /\ inputBuffer' =
                    inputBuffer \o SubSeq(pushed', Len(pushed) + 1, Len(pushed'))
      ]_vars

\* C12 witness: a handler invocation threw, and a line completed with Enter
\* waits in the queue with the phase not live and nothing scheduled.
C12_Witness ==
    /\ Stuck
    /\ Len(handled) = 1
    /\ Len(inputBuffer) = 1
    /\ inputBuffer[1].execute

\* C13: after every line push, by Enter or by Ctrl+C, in the live phase or
\* not, and before the next character is processed, the line buffer is
\* empty and the line-edit cursor is 0, and the entry pushed carries the text
\* the buffer held: in every reachable state, whether or not the storage
\* fails, the Enter key and the Ctrl+C key leave the controller so.
C13_PushResetsLine ==
    \A storageFails \in BOOLEAN :
        LET e == onChar(State, <<"CR">>, storageFails)
            c == onChar(State, <<"ETX">>, storageFails)
        IN  /\ e.input = <<>> /\ e.cursor = 0
            /\ e.pushed = Append(pushed, [input |-> input, execute |-> TRUE])
            /\ c.input = <<>> /\ c.cursor = 0
            /\ c.pushed = Append(pushed, [input |-> input \o <<"^", "C">>,
                                          execute |-> FALSE])

\* A handler invocation is in progress.
Running == \E i \in DOMAIN tasks : tasks[i] = "handler"

\* startInputPhase resumes, after its flush or after a finalized line.
Drains == \E i \in DOMAIN tasks : FlushDone(i) \/ DrainDone(i)

\* C14: on entering the input phase with lines queued, each resumption of
\* startInputPhase removes the head of the queue alone and presents it as a
\* finalized line; after a non-execute entry draining continues, at an
\* execute entry it stops: the entry goes to the handler and nothing else is
\* suspended; the phase is not made live; and while the handler runs no
\* entry is removed from the queue.  Entries leave the queue in no other
\* step.
C14_DrainStopsAtExecute ==
    [][/\ (Drains /\ inputBuffer # <<>>) =>
             LET entry == Head(inputBuffer)
             IN  /\ inputBuffer' = Tail(inputBuffer)
                 /\ presented' = Append(presented, entry.input)
                 /\ ~inputPhase'
                 /\ IF entry.execute
                    THEN /\ handled' = Append(handled, entry.input)
                         /\ tasks' = <<"handler">>
                    ELSE /\ handled' = handled
                         /\ tasks' = <<"drain">>
       /\ Running => (IsPrefix(inputBuffer, inputBuffer') /\ ~inputPhase')
       /\ ~IsPrefix(inputBuffer, inputBuffer') => Drains
      ]_vars

\* C14 witness: three lines were queued, a discarded one first; the discarded
\* line was presented, the executed line behind it was presented and handed
\* to the handler, which is running, and the third line is still queued.
C14_Witness ==
    /\ tasks = <<"handler">>
    /\ Len(presented) = 2
    /\ IsDiscard(presented[1])
    /\ handled = <<presented[2]>>
    /\ Len(inputBuffer) = 1
    /\ ~inputPhase

\* C15: the live phase and a non-empty pending-input queue exclude each
\* other.  In every reachable state the phase is not live or the queue is
\* empty; a resumption of startInputPhase makes the phase live only when it
\* finds the queue empty; a line taken by Enter or Ctrl+C in the live phase
\* is presented at once and not queued; and the queue grows only by the line
\* taken while the phase is not live.
C15_LiveExcludesQueue ==
    /\ ~(inputPhase /\ inputBuffer # <<>>)
    /\ drainStep(State).inputPhase => inputBuffer = <<>>
    /\ \A key \in {<<"CR">>, <<"ETX">>}, storageFails \in BOOLEAN :
          LET s == onChar(State, key, storageFails)
              taken == Len(s.pushed) = Len(pushed) + 1
          IN  IF inputPhase
              THEN /\ s.inputBuffer = inputBuffer
                   /\ taken =>
                         /\ s.presented =
                                Append(presented, s.pushed[Len(s.pushed)].input)
                         /\ s.tasks # <<>>
              ELSE /\ s.presented = presented
                   /\ IF taken
                      THEN s.inputBuffer =
                               Append(inputBuffer, s.pushed[Len(s.pushed)])
                      ELSE s.inputBuffer = inputBuffer

\* C15 witness: the phase is live after two lines were queued while it was
\* not and were drained, the first of them discarded, the second executed.
C15_Witness ==
    /\ inputPhase
    /\ inputBuffer = <<>>
    /\ Len(presented) = 2
    /\ IsDiscard(presented[1])
    /\ handled = <<presented[2]>>

-----------------------------------------------------------------------------
(* Properties of rendering *)

\* The chunks of raw input considered: single keys, control characters and
\* escape sequences, and pasted text with a line terminator at its start,
\* in its middle and at its end.
AnyChunks ==
    EditChunks \cup BrowseChunks
    \cup {<<"a", "a">>, <<"a", "CR">>, <<"CR", "a">>, <<"CR", "CR">>,
          <<"a", "ETX">>, <<"ETX", "a">>, <<"LF", "TAB">>, <<"CR", "LF">>,
          <<"a", "CR", "a">>, <<"CR", "a", "ETX">>}

\* C16: after a chunk of raw input the prompt line is redrawn in place
\* exactly when no line push happened in the chunk (no Enter and no Ctrl+C
\* of it was processed) and the phase is live at the end of the chunk; a
\* chunk with a push at any position is followed by no redraw, and none is
\* issued while the phase flag is false.
C16_RedrawIffNoPushAndLive ==
    \A str \in AnyChunks, storageFails \in BOOLEAN :
        LET s == onData(State, str, storageFails)
            push == Len(s.enters) > Len(enters) \/ Len(s.pushed) > Len(pushed)
        IN  /\ s.rerendered <=> (~push /\ s.inputPhase)
            /\ Terminators(str) > 0 => ~s.rerendered
            /\ ~s.inputPhase => ~s.rerendered

\* C16 witness: in the live phase with a character typed, a further
\* character is followed by a redraw, and Enter followed by a character is
\* not.
C16_Witness ==
    /\ inputPhase
    /\ input = <<"a">>
    /\ onData(State, <<"a">>, FALSE).rerendered
    /\ ~onData(State, <<"CR", "a">>, FALSE).rerendered

-----------------------------------------------------------------------------
(* Properties of the scratch edits *)

\* The keys of a walk through the history: cursor-up, cursor-down, and the
\* edits made at the slots passed.
WalkKeys == {Up, Down, <<"a">>, <<"DEL">>}

\* From st, away from slot p, whatever keys are pressed, at most n of them:
\* the first return of the browse cursor to p shows the text t.
RECURSIVE Restores(_, _, _, _)
Restores(st, p, t, n) ==
    \A key \in WalkKeys :
        LET s == onData(st, key, FALSE)
        IN  IF s.historyCursor = p
            THEN s.input = t
            ELSE n = 1 \/ Restores(s, p, t, n - 1)

\* C17: scratch edits survive browsing.  In every reachable state, with the
\* browse cursor at p and the line buffer holding t, every sequence of
\* cursor-up and cursor-down presses and of edits at other slots that leaves
\* p and comes back to p, without a line acceptance, shows t again; and
\* getPrevious and getNext leave the stored entries as they are.
C17_ScratchSurvives ==
    /\ \A key \in {Up, Down} :
          LET s == onData(State, key, FALSE)
          IN  s.historyCursor # historyCursor
                  => Restores(s, historyCursor, input, WalkMaxKeys)
    /\ getPrevious(State, input).state.entries = entries
    /\ getNext(State, input).state.entries = entries

\* C17 witness: at the newest stored entry, the line was edited to a text
\* that is not the stored entry, cursor-up then left the slot for an older
\* entry, and a cursor-down from here returns and shows the edited text.
C17_Witness ==
    /\ Len(entries) >= 2
    /\ historyCursor = Len(entries) - 2
    /\ temporaries[Len(entries)] # Undefined
    /\ temporaries[Len(entries)] # entries[Len(entries)]
    /\ onData(State, Down, FALSE).input = temporaries[Len(entries)]

-----------------------------------------------------------------------------
(* Properties of the browse cursor *)

\* C18: every rewind call, with an entry that is appended, with one that is
\* rejected as blank or repeated, or with none, whether or not the storage
\* fails, leaves the browse cursor at the live slot length(entries) and the
\* scratch array with length(entries) + 1 slots, all empty; and in every
\* reachable state the browse cursor lies in 0..length(entries).
C18_RewindResetsBrowse ==
    /\ \A newEntry \in StoreLines \cup {Undefined}, storageFails \in BOOLEAN :
          LET r == rewind(State, newEntry, storageFails)
          IN  /\ r.historyCursor = Len(r.entries)
              /\ r.temporaries = [k \in 1..(Len(r.entries) + 1) |-> Undefined]
    /\ 0 <= historyCursor /\ historyCursor <= Len(entries)

-----------------------------------------------------------------------------
(* Properties of the asynchronous calls *)

\* The suspended calls at one of the positions given.
Suspended(pcs) == Cardinality({i \in DOMAIN tasks : tasks[i] \in pcs})

\* C19: in every interleaving of input chunks, write flushes and handler
\* completions, at most one handler invocation is in progress, at most one
\* entry into the input phase (startInputPhase past its guard) is in
\* progress, the two never at once, and the phase flag is false as long as
\* either is in progress.
C19_HandlerAndPhaseExclusive ==
    /\ Suspended({"handler"}) <= 1
    /\ Suspended({"flush", "drain"}) <= 1
    /\ Suspended({"handler", "flush", "drain"}) <= 1
    /\ tasks # <<>> => ~inputPhase

\* C19 witness: a handler invocation is in progress while two executed
\* lines wait in the queue, the phase not live.
C19_Witness ==
    /\ tasks = <<"handler">>
    /\ Len(inputBuffer) = 2
    /\ inputBuffer[1].execute /\ inputBuffer[2].execute
    /\ ~inputPhase

\* C20: the controller always returns to the live phase.  When every write
\* is flushed and every handler invocation completes without throwing, then
\* from construction and after any input the controller again and again
\* reaches a state with the phase flag true, the pending-input queue empty
\* and no call suspended; once no further line is completed it stays there.
C20_ReturnsToLive == []<>Quiescent

\* C20 witness: the controller is at rest in the live phase after two lines
\* were handed to the handler and both invocations completed.
C20_Witness ==
    /\ Quiescent
    /\ Len(handled) = 2
    /\ Len(presented) = 2

====
